---- MODULE Spec2Model ----
(***************************************************************************)
(* The CSV loader (insert_data.py) and the report materializer             *)
(* (run_report_to_db.py) working on one SQLite store, ecom.db.             *)
(*                                                                         *)
(* A CSV field is a sequence of one-character strings; r.get(col) of a     *)
(* column the row does not carry is None.  A stored INTEGER is an integer, *)
(* a stored REAL is kept in tenths (9.5 is 95), SQL NULL is NULL for the   *)
(* numeric columns and None for the text columns.                          *)
(*                                                                         *)
(* `store` is what is committed to ecom.db; `work` is what the open        *)
(* connection sees, i.e. the store plus the rows of its open transaction.  *)
(***************************************************************************)
EXTENDS Integers, Sequences, FiniteSets, TLC

VARIABLES store, work, dbFile, conn, util, pc, idx, err, inserted, file,
          sql_text, count, dropped

vars == <<store, work, dbFile, conn, util, pc, idx, err, inserted, file,
          sql_text, count, dropped>>

----------------------------------------------------------------------------
(* Bounds of the model *)

\* an input file has at most MaxRows data rows
MaxRows == 2
\* an input file is offered only while the store holds at most this many rows
MaxStoreRows == 2

----------------------------------------------------------------------------
(* Values *)

None == <<"None">>
NULL == -1

DigitChars == <<"0", "1", "2", "3", "4", "5", "6", "7", "8", "9">>
IsDigit(c) == \E i \in 1..10 : DigitChars[i] = c
DigitVal(c) == (CHOOSE i \in 1..10 : DigitChars[i] = c) - 1

RECURSIVE DecVal(_)
DecVal(s) == IF s = <<>> THEN 0
             ELSE 10 * DecVal(SubSeq(s, 1, Len(s) - 1)) + DigitVal(s[Len(s)])

\* int(v) raises ValueError
IntRaises(v) == ~ (Len(v) > 0 /\ \A i \in 1..Len(v) : IsDigit(v[i]))

to_int_raises(v) == v # None /\ v # <<>> /\ IntRaises(v)

to_int(v) == IF v = None \/ v = <<>> THEN NULL ELSE DecVal(v)

Dots(v) == {i \in 1..Len(v) : v[i] = "."}

\* float(v) raises ValueError
FloatRaises(v) ==
    ~ ( /\ \A i \in 1..Len(v) : IsDigit(v[i]) \/ v[i] = "."
        /\ Cardinality(Dots(v)) <= 1
        /\ \E i \in 1..Len(v) : IsDigit(v[i]) )

to_float_raises(v) == v # None /\ v # <<>> /\ FloatRaises(v)

\* the value in tenths; the inputs carry at most one fractional digit
FloatVal(v) ==
    IF Dots(v) = {} THEN 10 * DecVal(v)
    ELSE LET d == CHOOSE i \in Dots(v) : TRUE
             frac == SubSeq(v, d + 1, Len(v))
         IN  10 * DecVal(SubSeq(v, 1, d - 1))
               + (IF frac = <<>> THEN 0 ELSE DigitVal(frac[1]))

to_float(v) == IF v = None \/ v = <<>> THEN NULL ELSE FloatVal(v)

----------------------------------------------------------------------------
(* Schema *)

\* the products are loaded first
order_products_first ==
    <<"products", "categories", "customers", "orders", "reviews">>

order == <<"categories", "products", "customers", "orders", "reviews">>

Tables == {order[i] : i \in 1..Len(order)}

\* FOREIGN KEY(col) REFERENCES ref(ID)
ForeignKeys(t) ==
    CASE t = "categories" -> {[col |-> "parent_category_id", ref |-> "categories"]}
      [] t = "products"   -> {[col |-> "category", ref |-> "categories"]}
      [] t = "customers"  -> {}
      [] t = "orders"     -> {[col |-> "customer_id", ref |-> "customers"],
                              [col |-> "product_id", ref |-> "products"]}
      [] t = "reviews"    -> {[col |-> "product_id", ref |-> "products"],
                              [col |-> "customer_id", ref |-> "customers"]}

\* TEXT NOT NULL
NotNullCols(t) ==
    CASE t = "categories" -> {"category_name"}
      [] t = "products"   -> {"name"}
      [] t = "customers"  -> {"name"}
      [] OTHER            -> {}

\* no table report_output in the store
NoTable == [exists |-> FALSE, cols |-> <<>>, rows |-> <<>>]

EmptyStore ==
    [schema |-> FALSE,
     categories |-> {}, products |-> {}, customers |-> {}, orders |-> {},
     reviews |-> {},
     late |-> {},
     report_output |-> NoTable]

create_tables(db) == [db EXCEPT !.schema = TRUE]

----------------------------------------------------------------------------
(* insert_csv *)

\* some to_int / to_float of the row raises ValueError
RowRaises(t, r) ==
    CASE t = "categories" ->
           \/ to_int_raises(r.parent_category_id)
           \/ to_int_raises(r.ID)
      [] t = "products" ->
           \/ to_int_raises(r.ID)
           \/ to_int_raises(r.category)
           \/ to_float_raises(r.price)
           \/ to_int_raises(r.stock_quantity)
      [] t = "customers" ->
           to_int_raises(r.ID)
      [] t = "orders" ->
           \/ to_int_raises(r.ID)
           \/ to_int_raises(r.customer_id)
           \/ to_int_raises(r.product_id)
           \/ to_int_raises(r.quantity)
           \/ to_float_raises(r.total_price)
      [] t = "reviews" ->
           \/ to_int_raises(r.ID)
           \/ to_int_raises(r.product_id)
           \/ to_int_raises(r.customer_id)
           \/ to_int_raises(r.rating)

\* the parameter tuple built from one row
RowParams(t, r) ==
    CASE t = "categories" ->
           [ID |-> to_int(r.ID), category_name |-> r.category_name,
            parent_category_id |-> to_int(r.parent_category_id)]
      [] t = "products" ->
           [ID |-> to_int(r.ID), name |-> r.name, category |-> to_int(r.category),
            price |-> to_float(r.price),
            stock_quantity |-> to_int(r.stock_quantity)]
      [] t = "customers" ->
           [ID |-> to_int(r.ID), name |-> r.name, email |-> r.email,
            registration_date |-> r.registration_date]
      [] t = "orders" ->
           [ID |-> to_int(r.ID), customer_id |-> to_int(r.customer_id),
            product_id |-> to_int(r.product_id), order_date |-> r.order_date,
            quantity |-> to_int(r.quantity),
            total_price |-> to_float(r.total_price)]
      [] t = "reviews" ->
           [ID |-> to_int(r.ID), product_id |-> to_int(r.product_id),
            customer_id |-> to_int(r.customer_id), rating |-> to_int(r.rating),
            review_text |-> r.review_text, review_date |-> r.review_date]

Ids(rowset) == {r.ID : r \in rowset}

MaxRowid(rowset) ==
    IF rowset = {} THEN 0
    ELSE CHOOSE m \in Ids(rowset) : \A n \in Ids(rowset) : n <= m

\* INTEGER PRIMARY KEY: a NULL id takes the next rowid
NewId(db, t, p) == IF p.ID = NULL THEN MaxRowid(db[t]) + 1 ELSE p.ID

\* OR IGNORE: the row conflicts on the primary key or on a NOT NULL column
Ignored(db, t, p) ==
    \/ p.ID # NULL /\ p.ID \in Ids(db[t])
    \/ \E c \in NotNullCols(t) : p[c] = None

\* the parent key is stored, or is the row being inserted itself
FkHolds(db, t, p, fk) ==
    \/ p[fk.col] = NULL
    \/ p[fk.col] \in Ids(db[fk.ref])
    \/ fk.ref = t /\ p[fk.col] = NewId(db, t, p)

\* the parent key was stored before the row was
FkPreexists(db, t, p, fk) ==
    p[fk.col] = NULL \/ p[fk.col] \in Ids(db[fk.ref])

\* INSERT OR REPLACE: a row with the same id is overwritten
InsertRowReplacing(db, t, p) ==
    IF \E c \in NotNullCols(t) : p[c] = None THEN [raised |-> FALSE, db |-> db]
    ELSE IF \E fk \in ForeignKeys(t) : ~ FkHolds(db, t, p, fk)
    THEN [raised |-> TRUE, db |-> db]
    ELSE LET row == [p EXCEPT !.ID = NewId(db, t, p)]
         IN  [raised |-> FALSE,
              db |-> [db EXCEPT ![t] = {r \in @ : r.ID # row.ID} \cup {row}]]

\* one INSERT OR IGNORE statement
InsertRow(db, t, p) ==
    IF Ignored(db, t, p) THEN [raised |-> FALSE, db |-> db]
    ELSE IF \E fk \in ForeignKeys(t) : ~ FkHolds(db, t, p, fk)
    THEN [raised |-> TRUE, db |-> db]
    ELSE LET row == [p EXCEPT !.ID = NewId(db, t, p)]
             lt  == IF \A fk \in ForeignKeys(t) : FkPreexists(db, t, p, fk)
                    THEN db.late
                    ELSE db.late \cup {<<t, row.ID>>}
         IN  [raised |-> FALSE,
              db |-> [db EXCEPT ![t] = @ \cup {row}, !.late = lt]]

\* cur.executemany(q, params): the statements run in order inside one
\* transaction and stop at the first one that raises
RECURSIVE executemany(_, _, _)
executemany(db, t, params) ==
    IF params = <<>> THEN [raised |-> FALSE, db |-> db]
    ELSE LET one == InsertRow(db, t, params[1])
         IN  IF one.raised THEN one
             ELSE executemany(one.db, t, Tail(params))

\* rows converted and inserted one at a time, each committed at once
RECURSIVE insert_rowwise(_, _, _)
insert_rowwise(db, t, rows) ==
    IF rows = <<>> THEN [outcome |-> "ok", db |-> db]
    ELSE IF RowRaises(t, rows[1]) THEN [outcome |-> "ValueError", db |-> db]
    ELSE LET one == InsertRow(db, t, RowParams(t, rows[1]))
         IN  IF one.raised THEN [outcome |-> "IntegrityError", db |-> db]
             ELSE insert_rowwise(one.db, t, Tail(rows))

insert_csv_rowwise(db, t, f) ==
    IF ~ f.exists
    THEN [outcome |-> "skipped", view |-> db, durable |-> db, inserted |-> 0]
    ELSE LET done == insert_rowwise(db, t, f.rows)
         IN  [outcome |-> done.outcome, view |-> done.db, durable |-> done.db,
              inserted |-> IF done.outcome = "ok"
                           THEN Cardinality(done.db[t]) - Cardinality(db[t])
                           ELSE 0]

\* the file is opened without looking whether it exists
insert_csv_unchecked(db, t, f) ==
    IF ~ f.exists
    THEN [outcome |-> "FileNotFoundError", view |-> db, durable |-> db,
          inserted |-> 0]
    ELSE insert_csv_rowwise(db, t, f)

\* insert_csv(conn, table, file_path) on a connection that sees db and has
\* no open transaction: what the connection sees afterwards (view), what is
\* committed afterwards (durable), the error raised or the count returned
insert_csv(db, t, f) ==
    LET before == Cardinality(db[t])
    IN
    IF ~ f.exists
    THEN [outcome |-> "skipped", view |-> db, durable |-> db, inserted |-> 0]
    ELSE IF \E i \in 1..Len(f.rows) : RowRaises(t, f.rows[i])
    THEN [outcome |-> "ValueError", view |-> db, durable |-> db, inserted |-> 0]
    ELSE LET params == [i \in 1..Len(f.rows) |-> RowParams(t, f.rows[i])]
             done   == executemany(db, t, params)
         IN  IF done.raised
             THEN [outcome |-> "IntegrityError", view |-> done.db,
                   durable |-> db, inserted |-> 0]
             ELSE [outcome |-> "ok", view |-> done.db, durable |-> done.db,
                   inserted |-> Cardinality(done.db[t]) - before]

----------------------------------------------------------------------------
(* The report query *)

SemiColons(q) == {i \in 1..Len(q) : q[i] = ";"}

\* sql_text[:-1] if sql_text.endswith(";")
StripTerminator(q) ==
    IF Len(q) > 0 /\ q[Len(q)] = ";" THEN SubSeq(q, 1, Len(q) - 1) ELSE q

FromAt(q) == {i \in 1..Len(q) : q[i] = "FROM"}

\* SELECT col .. FROM table [WHERE price > n]
WellFormed(q) ==
    /\ Len(q) >= 4
    /\ q[1] = "SELECT"
    /\ Cardinality(FromAt(q)) = 1
    /\ LET f == CHOOSE i \in FromAt(q) : TRUE
       IN  /\ f >= 3
           /\ f < Len(q)
           /\ \/ Len(q) = f + 1
              \/ /\ Len(q) = f + 5
                 /\ q[f + 2] = "WHERE"
                 /\ q[f + 3] = "price"
                 /\ q[f + 4] = ">"
                 /\ IsDigit(q[f + 5])

QueryCols(q) == SubSeq(q, 2, (CHOOSE i \in FromAt(q) : TRUE) - 1)

QueryFrom(q) == q[(CHOOSE i \in FromAt(q) : TRUE) + 1]

QueryHasWhere(q) == Len(q) > (CHOOSE i \in FromAt(q) : TRUE) + 1

QueryThreshold(q) == 10 * DigitVal(q[Len(q)])

ColumnsOf(t) ==
    CASE t = "categories" -> {"ID", "category_name", "parent_category_id"}
      [] t = "products"   -> {"ID", "name", "category", "price", "stock_quantity"}
      [] t = "customers"  -> {"ID", "name", "email", "registration_date"}
      [] t = "orders"     -> {"ID", "customer_id", "product_id", "order_date",
                              "quantity", "total_price"}
      [] t = "reviews"    -> {"ID", "product_id", "customer_id", "rating",
                              "review_text", "review_date"}
      [] OTHER            -> {}

\* the error, if any, of CREATE TABLE report_output AS <q>;
CreateError(db, q) ==
    IF SemiColons(q) # {} THEN "ProgrammingError"
    ELSE IF ~ WellFormed(q) THEN "OperationalError"
    ELSE IF ~ (db.schema /\ QueryFrom(q) \in Tables) THEN "OperationalError"
    ELSE IF \E i \in 1..Len(QueryCols(q)) :
                QueryCols(q)[i] \notin ColumnsOf(QueryFrom(q))
         THEN "OperationalError"
    ELSE IF db.report_output.exists THEN "OperationalError"
    ELSE "none"

Selected(db, q) ==
    {r \in db[QueryFrom(q)] :
        QueryHasWhere(q) => (r.price # NULL /\ r.price > QueryThreshold(q))}

\* the rows in rowid order
RECURSIVE ById(_)
ById(rowset) ==
    IF rowset = {} THEN <<>>
    ELSE LET m == CHOOSE r \in rowset : \A o \in rowset : r.ID <= o.ID
         IN  <<m>> \o ById(rowset \ {m})

Project(r, cols) == [i \in 1..Len(cols) |-> r[cols[i]]]

\* the WHERE clause is lost
RunQueryUnfiltered(db, q) ==
    LET src == ById(db[QueryFrom(q)])
    IN  [exists |-> TRUE,
         cols   |-> QueryCols(q),
         rows   |-> [i \in 1..Len(src) |-> Project(src[i], QueryCols(q))]]

\* the result set of q
RunQuery(db, q) ==
    LET src == ById(Selected(db, q))
    IN  [exists |-> TRUE,
         cols   |-> QueryCols(q),
         rows   |-> [i \in 1..Len(src) |-> Project(src[i], QueryCols(q))]]

\* the previous snapshot is kept
drop_nothing(db) == db

drop_if_exists(db) == [db EXCEPT !.report_output = NoTable]

create_as(db, q) == [db EXCEPT !.report_output = RunQuery(db, q)]

----------------------------------------------------------------------------
(* Inputs *)

\* the ids the input files name
KeyTexts == {<<"1">>, <<"2">>}
RefTexts == KeyTexts \cup {<<>>}

\* well-typed rows, a row with a malformed number, a row without its name
CategoryRows ==
    [ID : KeyTexts \cup {<<>>}, category_name : {<<"A">>},
     parent_category_id : RefTexts]
    \cup {[ID |-> <<"x">>, category_name |-> <<"A">>, parent_category_id |-> <<>>],
          [ID |-> <<"1">>, category_name |-> None, parent_category_id |-> <<"2">>]}

ProductRows ==
    [ID : KeyTexts, name : {<<"N">>}, category : RefTexts,
     price : {<<>>, <<"9", ".", "5">>}, stock_quantity : {<<>>}]
    \cup {[ID |-> <<"1">>, name |-> <<"N">>, category |-> <<>>,
           price |-> <<"9", ".", "5", ".">>, stock_quantity |-> <<"1">>],
          [ID |-> <<"2">>, name |-> <<"N">>, category |-> <<>>,
           price |-> <<"9">>, stock_quantity |-> <<"9", ".", "5">>]}

CustomerRows ==
    [ID : KeyTexts \cup {<<>>}, name : {<<"C">>}, email : {None},
     registration_date : {<<>>}]
    \cup {[ID |-> <<"x">>, name |-> <<"C">>, email |-> None,
           registration_date |-> <<>>],
          [ID |-> <<"1">>, name |-> None, email |-> None,
           registration_date |-> <<>>]}

OrderRows ==
    [ID : KeyTexts \cup {<<>>}, customer_id : RefTexts, product_id : {<<>>, <<"1">>},
     order_date : {<<>>}, quantity : {<<>>}, total_price : {<<>>}]
    \cup {[ID |-> <<"1">>, customer_id |-> <<>>, product_id |-> <<>>,
           order_date |-> <<>>, quantity |-> <<"x">>, total_price |-> <<"1">>]}

ReviewRows ==
    [ID : KeyTexts, product_id : RefTexts, customer_id : {<<>>, <<"1">>},
     rating : {<<>>}, review_text : {None}, review_date : {<<>>}]
    \cup {[ID |-> <<"1">>, product_id |-> <<>>, customer_id |-> <<>>,
           rating |-> <<"x">>, review_text |-> None, review_date |-> <<>>]}

RowsOf(t) ==
    CASE t = "categories" -> CategoryRows
      [] t = "products"   -> ProductRows
      [] t = "customers"  -> CustomerRows
      [] t = "orders"     -> OrderRows
      [] t = "reviews"    -> ReviewRows

NoFile == [exists |-> FALSE, rows |-> <<>>]

Min(a, b) == IF a <= b THEN a ELSE b

\* the files of at most n rows, and the absent file
Files(t, n) ==
    {NoFile} \cup
    {[exists |-> TRUE, rows |-> s] :
        s \in UNION {[1..k -> RowsOf(t)] : k \in 0..n}}

TotalRows(db) ==
    Cardinality(db.categories) + Cardinality(db.products)
      + Cardinality(db.customers) + Cardinality(db.orders)
      + Cardinality(db.reviews)

\* the room left in the store
Room(db) == Min(MaxRows, MaxStoreRows - TotalRows(db))

SqlBodies ==
    { <<"SELECT", "ID", "name", "FROM", "products", "WHERE", "price", ">", "5">>,
      <<"SELECT", "category", "FROM", "products">>,
      <<"SELECT", "ID", "FROM", "report_output">>,
      <<"SELEC", "ID", "FROM", "products">> }

SqlTexts == SqlBodies \cup {q \o <<";">> : q \in SqlBodies}
              \cup {q \o <<";", ";">> : q \in SqlBodies}

----------------------------------------------------------------------------
(* The two utilities *)

Init ==
    /\ store = EmptyStore
    /\ work = EmptyStore
    /\ dbFile = FALSE
    /\ conn = "none"
    /\ util = "none"
    /\ pc = "idle"
    /\ idx = 0
    /\ err = "none"
    /\ inserted = NULL
    /\ file = NoFile
    /\ sql_text = <<>>
    /\ count = NULL
    /\ dropped = FALSE

\* a new process: nothing is left of the previous one but the store
NewProcess(u) ==
    /\ pc \in {"idle", "done"}
    /\ util' = u
    /\ err' = "none"
    /\ work' = store
    /\ UNCHANGED <<idx, inserted, file, count, dropped>>

\* insert_data.main: sqlite3.connect
LoaderConnect ==
    /\ NewProcess("loader")
    /\ conn' = "open"
    /\ dbFile' = TRUE
    /\ pc' = "create_tables"
    /\ UNCHANGED <<store, sql_text>>

CreateTables ==
    /\ pc = "create_tables"
    /\ store' = create_tables(store)
    /\ work' = create_tables(store)
    /\ pc' = "insert"
    /\ idx' = 1
    /\ UNCHANGED <<dbFile, conn, util, err, inserted, file, sql_text, count,
                   dropped>>

\* the error leaves main without the finally clause
CreateTablesFailsUnclosed ==
    /\ pc = "create_tables"
    /\ err' = "OperationalError"
    /\ pc' = "done"
    /\ UNCHANGED <<store, work, dbFile, conn, util, idx, inserted, file, sql_text,
                   count, dropped>>

\* the store cannot be read or written
CreateTablesFails ==
    /\ pc = "create_tables"
    /\ err' = "OperationalError"
    /\ pc' = "finally"
    /\ UNCHANGED <<store, work, dbFile, conn, util, idx, inserted, file, sql_text,
                   count, dropped>>

\* one turn of the loop over `order`
InsertCsv ==
    /\ pc = "insert"
    /\ \E f \in Files(order[idx], Room(work)) :
         /\ LET res == insert_csv(work, order[idx], f)
            IN  /\ file' = f
                /\ work' = res.view
                /\ store' = res.durable
                /\ IF res.outcome \in {"ok", "skipped"}
                   THEN /\ inserted' = res.inserted
                        /\ err' = err
                        /\ IF idx = Len(order)
                           THEN pc' = "summary" /\ idx' = idx
                           ELSE pc' = pc /\ idx' = idx + 1
                   ELSE /\ inserted' = inserted
                        /\ err' = res.outcome
                        /\ pc' = "finally"
                        /\ idx' = idx
    /\ UNCHANGED <<dbFile, conn, util, sql_text, count, dropped>>

\* print the summary
Summary ==
    /\ pc = "summary"
    /\ pc' = "finally"
    /\ UNCHANGED <<store, work, dbFile, conn, util, idx, err, inserted, file,
                   sql_text, count, dropped>>

\* the open transaction is committed when the connection is closed
CloseCommitting ==
    /\ pc = "finally"
    /\ conn' = "closed"
    /\ store' = work
    /\ pc' = "done"
    /\ idx' = 0
    /\ inserted' = NULL
    /\ file' = NoFile
    /\ sql_text' = <<>>
    /\ count' = NULL
    /\ dropped' = FALSE
    /\ UNCHANGED <<work, dbFile, util, err>>

\* finally: conn.close(); an open transaction is rolled back.  The process
\* ends, with its error if it has one, and its locals are gone.
Close ==
    /\ pc = "finally"
    /\ conn' = "closed"
    /\ work' = store
    /\ pc' = "done"
    /\ idx' = 0
    /\ inserted' = NULL
    /\ file' = NoFile
    /\ sql_text' = <<>>
    /\ count' = NULL
    /\ dropped' = FALSE
    /\ UNCHANGED <<store, dbFile, util, err>>

\* run_report_to_db.main returns before connecting
ReportNoInput ==
    /\ NewProcess("report")
    /\ \E sqlExists \in BOOLEAN :
         /\ ~ dbFile \/ ~ sqlExists
         /\ conn' = "none"
         /\ pc' = "done"
         /\ sql_text' = <<>>
    /\ UNCHANGED <<store, dbFile>>

ReportConnect ==
    /\ NewProcess("report")
    /\ dbFile
    /\ \E text \in SqlTexts : sql_text' = StripTerminator(text)
    /\ conn' = "open"
    /\ pc' = "drop"
    /\ UNCHANGED <<store, dbFile>>

ReportDrop ==
    /\ pc = "drop"
    /\ store' = drop_if_exists(work)
    /\ work' = drop_if_exists(work)
    /\ dropped' = work.report_output.exists
    /\ pc' = "create"
    /\ UNCHANGED <<dbFile, conn, util, idx, err, inserted, file, sql_text, count>>

ReportDropFails ==
    /\ pc = "drop"
    /\ err' = "OperationalError"
    /\ pc' = "finally"
    /\ UNCHANGED <<store, work, dbFile, conn, util, idx, inserted, file, sql_text,
                   count, dropped>>

ReportCreate ==
    /\ pc = "create"
    /\ IF CreateError(work, sql_text) = "none"
       THEN /\ store' = create_as(work, sql_text)
            /\ work' = create_as(work, sql_text)
            /\ count' = Len(create_as(work, sql_text).report_output.rows)
            /\ err' = err
       ELSE /\ err' = CreateError(work, sql_text)
            /\ UNCHANGED <<store, work, count>>
    /\ pc' = "finally"
    /\ UNCHANGED <<dbFile, conn, util, idx, inserted, file, sql_text, dropped>>

Next ==
    \/ LoaderConnect
    \/ CreateTables
    \/ CreateTablesFails
    \/ InsertCsv
    \/ Summary
    \/ Close
    \/ ReportNoInput
    \/ ReportConnect
    \/ ReportDrop
    \/ ReportDropFails
    \/ ReportCreate

Spec == Init /\ [][Next]_vars

----------------------------------------------------------------------------
(* Vocabulary of the properties *)

Pos(t) == CHOOSE i \in 1..Len(order) : order[i] = t

\* the table the loader is at
Table == order[idx]

\* the INTEGER and REAL columns
NumericCols(t) ==
    CASE t = "categories" -> {"ID", "parent_category_id"}
      [] t = "products"   -> {"ID", "category", "price", "stock_quantity"}
      [] t = "customers"  -> {"ID"}
      [] t = "orders"     -> {"ID", "customer_id", "product_id", "quantity",
                              "total_price"}
      [] t = "reviews"    -> {"ID", "product_id", "customer_id", "rating"}

IsEmptyField(v) == v = None \/ v = <<>>

\* a field that is not empty and holds a character no number has
NonNumeric(v) ==
    /\ ~ IsEmptyField(v)
    /\ \E i \in 1..Len(v) : ~ IsDigit(v[i]) /\ v[i] # "."

Malformed(t, f) ==
    \E i \in 1..Len(f.rows) : \E c \in NumericCols(t) : NonNumeric(f.rows[i][c])

\* every numeric field of the file is empty or a number of its column's type
Converts(t, f) == \A i \in 1..Len(f.rows) : ~ RowRaises(t, f.rows[i])

\* the key a field names, for a field made of digits
KeyOf(v) == IF IsEmptyField(v) \/ IntRaises(v) THEN NULL ELSE DecVal(v)

\* row r names, in column fk.col, a key that no row of db has
Dangles(db, r, fk) ==
    KeyOf(r[fk.col]) # NULL /\ KeyOf(r[fk.col]) \notin Ids(db[fk.ref])

\* some row of the file carries a foreign key that references no stored row
HasDangling(db, t, f) ==
    \E i \in 1..Len(f.rows) : \E fk \in ForeignKeys(t) : Dangles(db, f.rows[i], fk)

\* row k of the file is one that insert-if-absent does not skip, whatever the
\* rows before it do: its id and the ids before it are not empty, its id is
\* neither stored nor used before it, its required names are there
NotSkipped(db, t, f, k) ==
    /\ \A j \in 1..k : KeyOf(f.rows[j].ID) # NULL
    /\ KeyOf(f.rows[k].ID) \notin Ids(db[t])
    /\ \A j \in 1..(k - 1) : KeyOf(f.rows[j].ID) # KeyOf(f.rows[k].ID)
    /\ \A c \in NotNullCols(t) : f.rows[k][c] # None

\* row k names a key that is not stored and that no row of the file up to
\* row k brings
DanglesInFile(db, t, f, k) ==
    \E fk \in ForeignKeys(t) :
        /\ Dangles(db, f.rows[k], fk)
        /\ fk.ref = t =>
             \A j \in 1..k : KeyOf(f.rows[j].ID) # KeyOf(f.rows[k][fk.col])

OffendingRow(db, t, f, k) == NotSkipped(db, t, f, k) /\ DanglesInFile(db, t, f, k)

HasOffendingRow(db, t, f) ==
    Converts(t, f) /\ \E k \in 1..Len(f.rows) : OffendingRow(db, t, f, k)

BaseTables(db) == [t \in Tables |-> db[t]]

\* no foreign key of the file dangles
RefsStored(db, t, f) == ~ HasDangling(db, t, f)

\* every row of the file has the id of a stored row
AllIdsStored(db, t, f) ==
    \A i \in 1..Len(f.rows) :
        KeyOf(f.rows[i].ID) # NULL /\ KeyOf(f.rows[i].ID) \in Ids(db[t])

\* the table of the call of insert_csv that has just returned
LastTable == IF pc = "summary" THEN order[Len(order)] ELSE order[idx - 1]

Returned == pc = "summary" \/ (pc = "insert" /\ idx > 1)

----------------------------------------------------------------------------
(* Properties *)

\* C1: when insert_csv has succeeded on a file, running it again on the same
\* file against the resulting store succeeds, returns an inserted-count of
\* zero and leaves the rows of the table as they are.
C1_SecondRunInsertsNothing ==
    [][ (pc = "insert" /\ pc' # "finally") =>
          LET again == insert_csv(work', Table, file')
          IN  /\ again.outcome \in {"ok", "skipped"}
              /\ again.inserted = 0
              /\ again.view[Table] = work'[Table]
              /\ again.durable[Table] = store'[Table] ]_vars

\* C2, as claimed, for the files whose numeric fields all convert: when a row
\* of the file carries a non-null foreign key that neither a stored row nor a
\* row of the file up to it satisfies, the call fails with a constraint error
\* and the store is, then and once the connection is closed, as it was before.
C2_DanglingRefFailsRun ==
    [][ /\ (pc = "insert" /\ Converts(Table, file')
               /\ \E k \in 1..Len(file'.rows) :
                     DanglesInFile(work, Table, file', k)) =>
              (err' = "IntegrityError" /\ pc' = "finally" /\ store' = store)
        /\ (pc = "finally" /\ err = "IntegrityError") =>
              (store' = store /\ work' = store) ]_vars

\* C2, amended: when every numeric field of the file converts and a row that
\* insert-if-absent does not skip carries a non-null foreign key that neither
\* a stored row nor a row of the file up to it satisfies, the call fails with
\* a constraint error, and the store is, then and once the connection is
\* closed, as it was before: no row of the file is kept.
C2_OffendingRowFailsRun ==
    [][ /\ (pc = "insert" /\ HasOffendingRow(work, Table, file')) =>
              (err' = "IntegrityError" /\ pc' = "finally" /\ store' = store)
        /\ (pc = "finally" /\ err = "IntegrityError") =>
              (store' = store /\ work' = store /\ pc' = "done") ]_vars

\* a valid row was inserted before the offending row raised
C2_Witness ==
    /\ pc = "finally"
    /\ err = "IntegrityError"
    /\ HasOffendingRow(store, Table, file)
    /\ work[Table] # store[Table]

C4_OrderAndDanglingCategory ==
    [][ pc = "insert" =>
          /\ Table = <<"categories", "products", "customers", "orders",
                        "reviews">>[idx]
          /\ \A fk \in ForeignKeys(Table) : Pos(fk.ref) <= idx
          /\ (Table = "products" /\ Converts(Table, file')
                /\ HasDangling(work, Table, file')) =>
                err' = "IntegrityError"
          /\ (Table = "products" /\ file'.exists /\ Converts(Table, file')
                /\ RefsStored(work, Table, file')) =>
                (err' = "none" /\ pc' = "insert") ]_vars

\* C4, amended: a table is loaded after the tables it references; a products
\* file whose numeric fields convert and in which a row that insert-if-absent
\* does not skip names a category that is not stored fails with a constraint
\* error; a products file whose numeric fields convert and whose categories
\* are all stored succeeds.
C4_OrderAndOffendingCategory ==
    [][ pc = "insert" =>
          /\ Table = <<"categories", "products", "customers", "orders",
                        "reviews">>[idx]
          /\ \A fk \in ForeignKeys(Table) : Pos(fk.ref) <= idx
          /\ (Table = "products" /\ HasOffendingRow(work, Table, file')) =>
                (err' = "IntegrityError" /\ pc' = "finally")
          /\ (Table = "products" /\ file'.exists /\ Converts(Table, file')
                /\ RefsStored(work, Table, file')) =>
                (err' = "none" /\ pc' = "insert") ]_vars

\* a product with a stored category has been loaded after the categories
C4_Witness ==
    /\ pc = "insert"
    /\ idx = Pos("products") + 1
    /\ err = "none"
    /\ inserted = 1
    /\ \E r \in store.products :
         /\ r.category # NULL
         /\ r.category \in Ids(store.categories)
         /\ \E i \in 1..Len(file.rows) : KeyOf(file.rows[i].ID) = r.ID

\* C5: every non-null foreign key of a stored row references a stored row,
\* and that row was stored before the referencing row was inserted.
C5_RefsPreexist ==
    \A t \in Tables : \A r \in store[t] : \A fk \in ForeignKeys(t) :
        r[fk.col] # NULL =>
            /\ r[fk.col] \in Ids(store[fk.ref])
            /\ <<t, r.ID>> \notin store.late

\* C6: when the materializer has succeeded, report_output has the columns of
\* the query and exactly the rows the query selects from the store as it is,
\* each once per selected row, and the count reported is its number of rows.
C6_SnapshotIsResult ==
    (util = "report" /\ pc = "finally" /\ err = "none") =>
        LET snap == store.report_output
            hits == {r \in store[QueryFrom(sql_text)] :
                       QueryHasWhere(sql_text) =>
                         (r.price # NULL /\ r.price > QueryThreshold(sql_text))}
        IN  /\ snap.exists
            /\ snap.cols = QueryCols(sql_text)
            /\ {snap.rows[i] : i \in 1..Len(snap.rows)}
                 = {Project(r, QueryCols(sql_text)) : r \in hits}
            /\ Len(snap.rows) = Cardinality(hits)
            /\ count = Len(snap.rows)
            /\ work = store

\* a snapshot was there before, and the query has left out a row of its table
C6_Witness ==
    /\ util = "report"
    /\ pc = "finally"
    /\ err = "none"
    /\ dropped
    /\ count = 1
    /\ Cardinality(store[QueryFrom(sql_text)]) = 2

\* C7: the drop is committed before the create is tried; a create that fails
\* (malformed SQL, a table that is not there) raises, leaves no report_output
\* in the store and leaves the five tables alone, and closing changes nothing.
C7_FailedCreateLeavesNoSnapshot ==
    [][ /\ (pc = "drop" /\ pc' = "create") =>
              (~ store'.report_output.exists
                 /\ BaseTables(store') = BaseTables(store))
        /\ (pc = "create" /\ (~ WellFormed(sql_text)
                                \/ QueryFrom(sql_text) \notin Tables)) =>
              err' # "none"
        /\ (pc = "create" /\ err' # "none") =>
              (pc' = "finally" /\ ~ store'.report_output.exists
                 /\ BaseTables(store') = BaseTables(store))
        /\ (util = "report" /\ pc = "finally") =>
              (store' = store /\ work' = store /\ err' = err) ]_vars

\* a snapshot was there, and the create has failed
C7_Witness ==
    /\ util = "report"
    /\ pc = "finally"
    /\ err # "none"
    /\ dropped
    /\ ~ store.report_output.exists
    /\ TotalRows(store) > 0

\* C8: no step removes or changes a stored row, and no table holds two rows
\* with one id; a file whose rows all have stored ids is skipped without
\* error: nothing is inserted and the count returned is zero.
C8_StoredRowsKept ==
    [][ /\ \A t \in Tables :
              /\ store[t] \subseteq store'[t]
              /\ \A r1, r2 \in store'[t] : r1.ID = r2.ID => r1 = r2
        /\ pc = "insert" => \A t \in Tables : work[t] \subseteq work'[t]
        /\ (pc = "insert" /\ file'.exists /\ Converts(Table, file')
              /\ AllIdsStored(work, Table, file')) =>
              (err' = "none" /\ work' = work /\ store' = store
                 /\ inserted' = 0) ]_vars

\* a row with a stored id and other values was skipped
C8_Witness ==
    /\ Returned
    /\ err = "none"
    /\ file.exists
    /\ inserted = 0
    /\ Converts(LastTable, file)
    /\ \E i \in 1..Len(file.rows) :
         /\ KeyOf(file.rows[i].ID) \in Ids(store[LastTable])
         /\ \A c \in NotNullCols(LastTable) : file.rows[i][c] # None
         /\ RowParams(LastTable, file.rows[i]) \notin store[LastTable]

\* C9: when the file of a table is absent, insert_csv raises nothing, returns
\* zero and leaves the store as it is, and the loader goes on to the next
\* table.
C9_AbsentFileSkipped ==
    [][ (pc = "insert" /\ ~ file'.exists) =>
          /\ err' = "none"
          /\ inserted' = 0
          /\ store' = store
          /\ work' = work
          /\ IF idx < Len(order)
             THEN pc' = "insert" /\ idx' = idx + 1
             ELSE pc' = "summary" ]_vars

\* the file of the first table was absent and the loader is at the second
C9_Witness ==
    /\ pc = "insert"
    /\ idx = 2
    /\ ~ file.exists
    /\ inserted = 0
    /\ err = "none"

\* C10: the connection is open exactly while a utility is between its
\* connect and its close, so a utility that has ended has closed it; once an
\* error is raised nothing is done but the close.
C10_ConnectionReleased ==
    /\ conn = "open" <=> pc \notin {"idle", "done"}
    /\ err # "none" => pc \in {"finally", "done"}
    /\ (err # "none" /\ pc = "finally") => conn = "open"
    /\ (err # "none" /\ pc = "done") => conn = "closed"

\* a loader that failed in insert_csv has ended with the connection closed
C10_Witness ==
    /\ util = "loader"
    /\ pc = "done"
    /\ err = "IntegrityError"
    /\ conn = "closed"

====
